---------------------------- MODULE Spec2Model ----------------------------
(***************************************************************************)
(* The three example client scripts of the Agentic Debugger bridge:        *)
(*   examples/basic_agent.py            (HTTP only, polling loop)          *)
(*   examples/websocket_agent.py        (HTTP set-up, then WebSocket)      *)
(*   examples/autonomous_debug_agent.py (WebSocket thread + main thread)   *)
(* The bridge itself is external: its answers are nondeterministic inputs. *)
(* A text the scripts search in is a sequence of one-character strings.    *)
(***************************************************************************)
EXTENDS Integers, Sequences, FiniteSets, TLC

VARIABLES
    script,         \* which script this process runs
    discovery,      \* the decoded discovery file
    pc,             \* position of the main thread
    wsPc,           \* position of the WebSocket thread (run_forever)
    inflight,       \* HTTP requests sent and not yet answered
    sent,           \* per thread, the HTTP requests issued so far
    answer,         \* per thread, what the bridge answered last
    ret,            \* per thread, what the last HTTP helper call returned
    state,          \* basic_agent.py: the variable `state`
    result,         \* the variable `result` of the scripts
    i,              \* basic_agent.py: the loop variable of the polling loop
    sleeps,         \* basic_agent.py: time.sleep(0.5) calls taken in the loop
    out,            \* what the main thread printed last (values only)
    wsConn,         \* the WebSocket connection request, once sent
    msgCount,       \* WebSocket messages delivered so far
    lastMsg,        \* the message the handler was last called with
    wsOut,          \* lines printed by the current / last on_message call
    errors,         \* run_debugging_cycle: the variable `errors`
    current_state,  \* AutonomousDebugAgent.current_state
    error_history,  \* AutonomousDebugAgent.error_history
    running,        \* AutonomousDebugAgent.running
    error_item,     \* analyze_error: the argument
    suggestions     \* analyze_error: the returned list

httpVars  == <<inflight, sent, answer, ret>>
basicVars == <<state, i, sleeps>>
wsVars    == <<wsPc, wsConn, msgCount, lastMsg, wsOut>>
agentVars == <<current_state, error_history, running, errors>>
fnVars    == <<error_item, suggestions>>

vars == <<script, discovery, pc, result, out, httpVars, basicVars, wsVars,
          agentVars, fnVars>>

-----------------------------------------------------------------------------
(* Bounds of the model *)

\* fragments concatenated into one error description
MaxFrags == 2
\* error items in one /errors answer
MaxErrors == 1
\* WebSocket messages delivered in one run
MaxMsgs == 2

-----------------------------------------------------------------------------
(* Python helpers *)

\* Python's None
None == [none |-> TRUE]

\* a decoded JSON array (a Python list)
List(s) == [array |-> s]

\* dict.get(key, default)
Get(d, k, default) == IF k \in DOMAIN d THEN d[k] ELSE default

\* seq[:n]
Take(s, n) == SubSeq(s, 1, IF Len(s) < n THEN Len(s) ELSE n)

LowerChar(c) ==
    CASE c = "A" -> "a" [] c = "B" -> "b" [] c = "C" -> "c" [] c = "D" -> "d"
      [] c = "E" -> "e" [] c = "F" -> "f" [] c = "G" -> "g" [] c = "H" -> "h"
      [] c = "I" -> "i" [] c = "J" -> "j" [] c = "K" -> "k" [] c = "L" -> "l"
      [] c = "M" -> "m" [] c = "N" -> "n" [] c = "O" -> "o" [] c = "P" -> "p"
      [] c = "Q" -> "q" [] c = "R" -> "r" [] c = "S" -> "s" [] c = "T" -> "t"
      [] c = "U" -> "u" [] c = "V" -> "v" [] c = "W" -> "w" [] c = "X" -> "x"
      [] c = "Y" -> "y" [] c = "Z" -> "z" [] OTHER -> c

\* str.lower()
Lower(s) == [k \in 1..Len(s) |-> LowerChar(s[k])]

\* needle in hay
Contains(needle, hay) ==
    \E k \in 0..(Len(hay) - Len(needle)) :
        SubSeq(hay, k + 1, k + Len(needle)) = needle

\* sum(...) over a sequence of numbers
RECURSIVE Sum(_)
Sum(s) == IF s = <<>> THEN 0 ELSE Head(s) + Sum(Tail(s))

-----------------------------------------------------------------------------
(* The literals the scripts match on *)

Pat_not_defined ==
    <<"n","o","t"," ","d","e","f","i","n","e","d">>
Pat_does_not_exist ==
    <<"d","o","e","s"," ","n","o","t"," ","e","x","i","s","t">>
Pat_null_reference ==
    <<"n","u","l","l"," ","r","e","f","e","r","e","n","c","e">>
Pat_type_mismatch ==
    <<"t","y","p","e"," ","m","i","s","m","a","t","c","h">>
Pat_cannot_convert ==
    <<"c","a","n","n","o","t"," ","c","o","n","v","e","r","t">>
Pat_error ==
    <<"e","r","r","o","r">>
Pat_NullReferenceException ==
    <<"N","u","l","l","R","e","f","e","r","e","n","c","e","E","x","c","e","p","t","i","o","n">>
Pat_IndexOutOfRangeException ==
    <<"I","n","d","e","x","O","u","t","O","f","R","a","n","g","e","E","x","c","e","p","t","i","o","n">>

-----------------------------------------------------------------------------
(* analyze_error (autonomous_debug_agent.py) *)

\* the pieces error descriptions are made of
Fragments ==
    { <<>>,
      <<"X"," ","i","s"," ">>,
      Pat_not_defined,
      <<"N","o","t"," ","D","e","f","i","n","e","d">>,
      Pat_does_not_exist,
      Pat_null_reference,
      <<"N","U","L","L"," ","R","e","f","e","r","e","n","c","e">>,
      Pat_type_mismatch,
      <<"C","a","n","n","o","t"," ","C","o","n","v","e","r","t">>,
      <<"n","o","t">>,
      <<" ","d","e","f","i","n","e","d">>,
      <<"n","u","l","l"," ">>,
      <<"r","e","f","e","r","e","n","c","e">>,
      <<"t","y","p","e">>,
      <<" ","m","i","s","m","a","t","c","h">> }

RECURSIVE Concats(_)
Concats(n) ==
    IF n = 0 THEN { <<>> }
    ELSE { f \o d : f \in Fragments, d \in Concats(n - 1) }

Descriptions == Concats(MaxFrags)

\* an error item of GET /errors; `description` may be missing
ErrorItemInputs ==
    { [file |-> "a.cs", line |-> 10, description |-> d] : d \in Descriptions }
    \cup { [file |-> "a.cs", line |-> 10] }

analyze_error_mixed(item) ==
    LET description == Get(item, "description", <<>>)
        file_path   == Get(item, "file", "")
        line        == Get(item, "line", 0)
        a == IF Contains(Pat_not_defined, Lower(description))
                \/ Contains(Pat_does_not_exist, Lower(description))
             THEN << [text |-> "Missing import or undefined variable"],
                     [text |-> "Action: Check imports at ", file |-> file_path] >>
             ELSE <<>>
        b == IF Contains(Pat_null_reference, Lower(description))
             THEN << [text |-> "Null reference exception"],
                     [text |-> "Action: Add null check at line ", line |-> line] >>
             ELSE <<>>
        c == IF Contains(Pat_type_mismatch, Lower(description))
                \/ Contains(Pat_cannot_convert, Lower(description))
             THEN << [text |-> "Type conversion issue"],
                     [text |-> "Action: Check type compatibility"] >>
             ELSE <<>>
    IN  a \o b \o c

analyze_error(item) ==
    LET description == Get(item, "description", <<>>)
        file_path   == Get(item, "file", "")
        line        == Get(item, "line", 0)
    IN  IF Contains(Pat_not_defined, Lower(description))
           \/ Contains(Pat_does_not_exist, Lower(description))
        THEN << [text |-> "Missing import or undefined variable"],
                [text |-> "Action: Check imports at ", file |-> file_path] >>
        ELSE IF Contains(Pat_null_reference, Lower(description))
        THEN << [text |-> "Null reference exception"],
                [text |-> "Action: Add null check at line ", line |-> line] >>
        ELSE IF Contains(Pat_type_mismatch, Lower(description))
                \/ Contains(Pat_cannot_convert, Lower(description))
        THEN << [text |-> "Type conversion issue"],
                [text |-> "Action: Check type compatibility"] >>
        ELSE <<>>

-----------------------------------------------------------------------------
(* What every specification starts from *)

Discoveries ==
    { [port |-> 27183, defaultApiKey |-> "dev", keyHeader |-> "X-Api-Key"],
      [port |-> 5000, defaultApiKey |-> "s3cret", keyHeader |-> "Authorization"] }

Threads == {"main", "ws"}

InitCommon ==
    /\ discovery \in Discoveries
    /\ inflight = {}
    /\ sent = [t \in Threads |-> <<>>]
    /\ answer = [t \in Threads |-> None]
    /\ ret = [t \in Threads |-> None]
    /\ state = None
    /\ result = None
    /\ i = 0
    /\ sleeps = 0
    /\ out = None
    /\ wsConn = None
    /\ msgCount = 0
    /\ lastMsg = None
    /\ wsOut = <<>>
    /\ errors = None
    /\ error_item = None
    /\ suggestions = None

-----------------------------------------------------------------------------
(* The HTTP transport (requests.get / requests.post) and the bridge *)

BASE_URL == [host |-> "localhost", port |-> discovery.port]
WS_URL   == [host |-> "localhost", port |-> discovery.port, path |-> <<"ws">>]
API_KEY  == discovery.defaultApiKey
HEADERS  == { <<discovery.keyHeader, API_KEY>> }

\* requests.get(url, headers=HEADERS)
HttpGet(path) ==
    [method |-> "GET", base |-> BASE_URL, path |-> path, headers |-> HEADERS]

\* requests.post(url, json=body, headers=HEADERS)
HttpPost(path, body) ==
    [method |-> "POST", base |-> BASE_URL, path |-> path, headers |-> HEADERS,
     json |-> body]

\* the request leaves; the calling thread blocks until HttpDone
HttpCall(t, req) ==
    /\ inflight' = inflight \cup { [thread |-> t, req |-> req] }
    /\ sent' = [sent EXCEPT ![t] = Append(@, req)]

Pending(t) == { r \in inflight : r.thread = t }

HttpDoneNotAwaited(t) == inflight

\* the blocking call of thread t is over (answered, or failed in transport)
HttpDone(t) == inflight \ Pending(t)

PendingPath(t) == (CHOOSE r \in Pending(t) : TRUE).req.path

TransportFailure == [failed |-> TRUE]

\* an answer whose body is no JSON document
Unauthorized == [failed |-> FALSE, status |-> 401, text |-> <<>>]

Modes == {"Run", "Break", "Design"}

StateAnswers ==
    { [failed |-> FALSE, status |-> 200,
       json |-> [snapshot |-> [mode |-> m, locals |-> << <<"x", 1>> >>]]]
      : m \in Modes }

CommandAnswers ==
    { [failed |-> FALSE, status |-> 200, json |-> [ok |-> b]] : b \in BOOLEAN }

BatchAnswers ==
    { [failed |-> FALSE, status |-> 200,
       json |-> [ok |-> c[2] = 0, successCount |-> c[1], failureCount |-> c[2]]]
      : c \in { <<3, 0>>, <<2, 1>> } }

ErrorItems ==
    { [file |-> "a.cs", line |-> 10,
       description |-> <<"X"," ","i","s"," ">> \o Pat_not_defined],
      [file |-> "c.cs", line |-> 3] }

RECURSIVE SeqsUpTo(_, _)
SeqsUpTo(S, n) ==
    IF n = 0 THEN { <<>> }
    ELSE SeqsUpTo(S, n - 1)
         \cup { Append(q, x) : q \in { p \in SeqsUpTo(S, n - 1) : Len(p) = n - 1 },
                               x \in S }

ErrorsAnswers ==
    { [failed |-> FALSE, status |-> 200, json |-> List(e)]
      : e \in SeqsUpTo(ErrorItems, MaxErrors) }

MetricsAnswers ==
    { [failed |-> FALSE, status |-> 200,
       json |-> [uptime |-> "00:01:00", totalRequests |-> n,
                 averageResponseTimeMs |-> 12, activeWebSocketConnections |-> 0]]
      : n \in {7, 8} }

OutputAnswers ==
    { [failed |-> FALSE, status |-> 200, text |-> <<>>],
      [failed |-> FALSE, status |-> 200, text |-> <<"B","u","i","l","d"," ","O","K">>],
      [failed |-> FALSE, status |-> 200, text |-> <<"1"," ","E","r","r","o","r">>],
      [failed |-> FALSE, status |-> 404, text |-> <<>>],
      [failed |-> FALSE, status |-> 500, text |-> <<"1"," ","E","r","r","o","r">>] }

LogsAnswers ==
    { [failed |-> FALSE, status |-> 200, json |-> List(l)]
      : l \in { <<>>, << [durationMs |-> 10], [path |-> "/state"] >> } }

\* everything that can come back for a request to `path`
Outcomes(path) ==
    {TransportFailure, Unauthorized}
    \cup (CASE path = <<"state">>   -> StateAnswers
            [] path = <<"command">> -> CommandAnswers
            [] path = <<"batch">>   -> BatchAnswers
            [] path = <<"errors">>  -> ErrorsAnswers
            [] path = <<"metrics">> -> MetricsAnswers
            [] path = <<"logs">>    -> LogsAnswers
            [] OTHER                -> OutputAnswers)

\* a helper's outcome: it raised, or it returned `value`
Raise == [raised |-> TRUE]
Return(v) == [raised |-> FALSE, value |-> v]

\* resp.json(): the decoded body; raises when the body is no JSON document
resp_json(o) ==
    IF o.failed THEN Raise
    ELSE IF "json" \in DOMAIN o THEN Return(o.json)
    ELSE Raise

-----------------------------------------------------------------------------
(* Positions of a thread: <<label, "run">> is about to execute the line,    *)
(* <<label, "wait">> is blocked in the HTTP call of that line.              *)

At(p, l)      == p = <<l, "run">>
Waiting(p, l) == p = <<l, "wait">>
\* an uncaught exception ended the thread in the call of line l
CrashedAt(l)  == <<l, "raised">>

\* the blocked call of thread t ends with outcome o of the bridge
HttpReturn(t, o, r) ==
    /\ inflight' = HttpDone(t)
    /\ answer' = [answer EXCEPT ![t] = o]
    /\ ret' = [ret EXCEPT ![t] = r]

-----------------------------------------------------------------------------
(* basic_agent.py *)

PollLimit == 10

basic_get_state_request == HttpGet(<<"state">>)

basic_get_state(o) == resp_json(o)

basic_execute_command_request(action, kwargs) ==
    HttpPost(<<"command">>, ("action" :> action) @@ kwargs)

basic_execute_command_status(o) ==
    IF o.failed THEN Raise ELSE Return([ok |-> o.status = 200])

basic_execute_command(o) == resp_json(o)

basic_batch_execute_request(commands, stop_on_error) ==
    HttpPost(<<"batch">>, [commands |-> commands, stopOnError |-> stop_on_error])

basic_batch_execute(o) == resp_json(o)

basic_get_errors_request == HttpGet(<<"errors">>)

basic_get_errors(o) == resp_json(o)

basic_get_metrics_request == HttpGet(<<"metrics">>)

basic_get_metrics(o) == resp_json(o)

NoArgs == [k \in {} |-> None]

\* the commands of lines 66-68 and 109
BasicCommandAt(l) ==
    CASE l = "L66" -> <<"setBreakpoint", [file |-> "C:\\Code\\Program.cs", line |-> 10]>>
      [] l = "L67" -> <<"setBreakpoint", [file |-> "C:\\Code\\Worker.cs", line |-> 25]>>
      [] l = "L68" -> <<"setBreakpoint", [file |-> "C:\\Code\\Service.cs", line |-> 42]>>
      [] l = "L109" -> <<"start", NoArgs>>

\* the list literal of lines 76-80
BasicBatchCommands ==
    << [action |-> "setBreakpoint", file |-> "C:\\Code\\Program.cs", line |-> 15],
       [action |-> "setBreakpoint", file |-> "C:\\Code\\Worker.cs", line |-> 30],
       [action |-> "setBreakpoint", file |-> "C:\\Code\\Service.cs", line |-> 45] >>

BasicNextLine(l) ==
    CASE l = "L59" -> "L66" [] l = "L66" -> "L67" [] l = "L67" -> "L68"
      [] l = "L68" -> "L76" [] l = "L76" -> "L88" [] l = "L88" -> "L99"
      [] l = "L99" -> "L109" [] l = "L109" -> "L113"

InitBasic ==
    /\ InitCommon
    /\ current_state = None /\ error_history = <<>> /\ running = FALSE
    /\ script = "basic"
    /\ pc = <<"L59", "run">>
    /\ wsPc = <<"none", "run">>

\* lines 59 and 113: state = get_state(), the request
BasicGetStateCall ==
    /\ At(pc, "L59") \/ At(pc, "L113")
    /\ HttpCall("main", basic_get_state_request)
    /\ pc' = <<pc[1], "wait">>
    /\ UNCHANGED <<script, discovery, result, out, answer, ret, basicVars,
                   wsVars, agentVars, fnVars>>

\* lines 59-61: the initial state is printed
BasicInitialStateReturn ==
    /\ Waiting(pc, "L59")
    /\ \E o \in Outcomes(PendingPath("main")) :
          LET r == basic_get_state(o) IN
          /\ HttpReturn("main", o, r)
          /\ IF r.raised
             THEN pc' = CrashedAt(pc[1]) /\ UNCHANGED <<state, out>>
             ELSE /\ state' = r.value
                  /\ out' = [line |-> 60, mode |-> r.value.snapshot.mode]
                  /\ pc' = <<BasicNextLine("L59"), "run">>
    /\ UNCHANGED <<script, discovery, result, sent, i, sleeps, wsVars,
                   agentVars, fnVars>>

\* lines 66-68 and 109: execute_command(...), the request
BasicExecuteCommandCall ==
    /\ pc[2] = "run" /\ pc[1] \in {"L66", "L67", "L68", "L109"}
    /\ HttpCall("main", basic_execute_command_request(BasicCommandAt(pc[1])[1],
                                                      BasicCommandAt(pc[1])[2]))
    /\ pc' = <<pc[1], "wait">>
    /\ UNCHANGED <<script, discovery, result, out, answer, ret, basicVars,
                   wsVars, agentVars, fnVars>>

\* lines 66-68 and 109: the returned value is dropped
BasicExecuteCommandReturn ==
    /\ pc[2] = "wait" /\ pc[1] \in {"L66", "L67", "L68", "L109"}
    /\ \E o \in Outcomes(PendingPath("main")) :
          LET r == basic_execute_command(o) IN
          /\ HttpReturn("main", o, r)
          /\ pc' = IF r.raised THEN CrashedAt(pc[1]) ELSE <<BasicNextLine(pc[1]), "run">>
    /\ UNCHANGED <<script, discovery, result, out, sent, basicVars, wsVars,
                   agentVars, fnVars>>

\* lines 76-80: result = batch_execute([...]), the request
BasicBatchCall ==
    /\ At(pc, "L76")
    /\ HttpCall("main", basic_batch_execute_request(BasicBatchCommands, TRUE))
    /\ pc' = <<"L76", "wait">>
    /\ UNCHANGED <<script, discovery, result, out, answer, ret, basicVars,
                   wsVars, agentVars, fnVars>>

\* lines 76-84: the counts of the result are printed
BasicBatchReturn ==
    /\ Waiting(pc, "L76")
    /\ \E o \in Outcomes(PendingPath("main")) :
          LET r == basic_batch_execute(o) IN
          /\ HttpReturn("main", o, r)
          /\ IF r.raised
             THEN pc' = CrashedAt(pc[1]) /\ UNCHANGED <<result, out>>
             ELSE /\ result' = r.value
                  /\ out' = [line |-> 83, success |-> r.value.successCount,
                          failure |-> r.value.failureCount]
                  /\ pc' = <<BasicNextLine("L76"), "run">>
    /\ UNCHANGED <<script, discovery, sent, basicVars, wsVars, agentVars, fnVars>>

\* line 88: errors = get_errors(), the request
BasicGetErrorsCall ==
    /\ At(pc, "L88")
    /\ HttpCall("main", basic_get_errors_request)
    /\ pc' = <<"L88", "wait">>
    /\ UNCHANGED <<script, discovery, result, out, answer, ret, basicVars,
                   wsVars, agentVars, fnVars>>

\* lines 88-95: the first five errors are printed; err['description'] of an
\* item without a description raises KeyError
BasicGetErrorsReturn ==
    /\ Waiting(pc, "L88")
    /\ \E o \in Outcomes(PendingPath("main")) :
          LET r == basic_get_errors(o)
              errs == r.value.array
              shown == Take(errs, 5)
          IN
          /\ HttpReturn("main", o, r)
          /\ IF r.raised
             THEN pc' = CrashedAt(pc[1]) /\ UNCHANGED out
             ELSE IF errs = <<>>
             THEN pc' = <<BasicNextLine("L88"), "run">> /\ out' = [line |-> 94]
             ELSE IF \E k \in 1..Len(shown) :
                        {"file", "line", "description"} \ DOMAIN shown[k] # {}
             THEN pc' = CrashedAt(pc[1]) /\ out' = [line |-> 90, found |-> Len(errs)]
             ELSE /\ pc' = <<BasicNextLine("L88"), "run">>
                  /\ out' = [line |-> 92, found |-> Len(errs), shown |-> shown]
    /\ UNCHANGED <<script, discovery, result, sent, basicVars, wsVars,
                   agentVars, fnVars>>

\* line 99: metrics = get_metrics(), the request
BasicGetMetricsCall ==
    /\ At(pc, "L99")
    /\ HttpCall("main", basic_get_metrics_request)
    /\ pc' = <<"L99", "wait">>
    /\ UNCHANGED <<script, discovery, result, out, answer, ret, basicVars,
                   wsVars, agentVars, fnVars>>

\* lines 99-104
BasicGetMetricsReturn ==
    /\ Waiting(pc, "L99")
    /\ \E o \in Outcomes(PendingPath("main")) :
          LET r == basic_get_metrics(o) IN
          /\ HttpReturn("main", o, r)
          /\ IF r.raised
             THEN pc' = CrashedAt(pc[1]) /\ UNCHANGED out
             ELSE /\ out' = [line |-> 101, totalRequests |-> r.value.totalRequests]
                  /\ pc' = <<BasicNextLine("L99"), "run">>
    /\ UNCHANGED <<script, discovery, result, sent, basicVars, wsVars,
                   agentVars, fnVars>>

\* the next value of range(PollLimit), or the end of the loop
BasicLoopNextOffByOne(n) ==
    IF n + 1 <= PollLimit THEN <<"L113", n + 1>> ELSE <<"L126", n>>

BasicLoopNext(n) ==
    IF n + 1 < PollLimit THEN <<"L113", n + 1>> ELSE <<"L126", n>>

\* what follows the print of line 115
BasicAfterPollNoBreak(mode) == "L124"

BasicAfterPoll(mode) == IF mode = "Break" THEN "L126" ELSE "L124"

\* lines 113-122: one poll of the loop `for i in range(10)`
BasicPollReturn ==
    /\ Waiting(pc, "L113")
    /\ \E o \in Outcomes(PendingPath("main")) :
          LET r == basic_get_state(o) IN
          /\ HttpReturn("main", o, r)
          /\ IF r.raised
             THEN pc' = CrashedAt(pc[1]) /\ UNCHANGED <<state, out>>
             ELSE /\ state' = r.value
                  /\ out' = [line |-> 115, poll |-> i + 1,
                          mode |-> r.value.snapshot.mode]
                  /\ pc' = <<BasicAfterPoll(r.value.snapshot.mode), "run">>
    /\ UNCHANGED <<script, discovery, result, sent, i, sleeps, wsVars,
                   agentVars, fnVars>>

\* line 124, then the loop header of line 112
BasicPollSleep ==
    /\ At(pc, "L124")
    /\ sleeps' = sleeps + 1
    /\ pc' = <<BasicLoopNext(i)[1], "run">>
    /\ i' = BasicLoopNext(i)[2]
    /\ UNCHANGED <<script, discovery, result, out, httpVars, state, wsVars,
                   agentVars, fnVars>>

\* lines 126-127
BasicFinish ==
    /\ At(pc, "L126")
    /\ pc' = <<"done", "run">>
    /\ out' = [line |-> 127]
    /\ UNCHANGED <<script, discovery, result, httpVars, basicVars, wsVars,
                   agentVars, fnVars>>

NextBasic ==
    \/ BasicGetStateCall
    \/ BasicInitialStateReturn
    \/ BasicExecuteCommandCall
    \/ BasicExecuteCommandReturn
    \/ BasicBatchCall
    \/ BasicBatchReturn
    \/ BasicGetErrorsCall
    \/ BasicGetErrorsReturn
    \/ BasicGetMetricsCall
    \/ BasicGetMetricsReturn
    \/ BasicPollReturn
    \/ BasicPollSleep
    \/ BasicFinish

SpecBasic == InitBasic /\ [][NextBasic]_vars

\* every request returns and the interpreter keeps running the script (every
\* step of the script moves pc)
FairSpecBasic == SpecBasic /\ WF_pc(NextBasic)

-----------------------------------------------------------------------------
(* Properties of basic_agent.py *)

\* GET /state requests issued by the polling loop (all but the one of line 59)
LoopPolls ==
    Cardinality({ k \in DOMAIN sent["main"] :
                    /\ k > 1
                    /\ sent["main"][k].method = "GET"
                    /\ sent["main"][k].path = <<"state">> })

BasicEnded == pc[2] = "raised" \/ At(pc, "done")

\* C1: the polling loop issues at most PollLimit (10) GET /state requests,
\* whatever the answers are, and the script then runs to its end (it ends
\* earlier only by an exception of a failed request).
C1_PollingLoopTerminates ==
    /\ [](LoopPolls <= PollLimit)
    /\ [](At(pc, "done") => LoopPolls <= PollLimit /\ inflight = {})
    /\ <>BasicEnded

\* ten polls, none of them Break, and the script reached its end
C1_Witness ==
    /\ At(pc, "done")
    /\ LoopPolls = PollLimit
    /\ sleeps = PollLimit
    /\ state.snapshot.mode # "Break"

\* C9: a poll answered with mode Break ends the loop at once (no further
\* GET /state, no further sleep); any other poll is followed by one sleep and
\* then by the next poll, unless it was the 10th poll.
C9_EarlyExitOnBreak ==
    [][ /\ (Waiting(pc, "L113") /\ pc'[2] # "raised"
              => IF state'.snapshot.mode = "Break"
                 THEN At(pc', "L126") /\ sleeps' = sleeps
                 ELSE At(pc', "L124"))
        /\ (At(pc, "L124")
              => /\ sleeps' = sleeps + 1
                 /\ sent' = sent
                 /\ IF i + 1 = PollLimit
                    THEN At(pc', "L126")
                    ELSE At(pc', "L113") /\ i' = i + 1)
        /\ (At(pc, "L113") => Waiting(pc', "L113") /\ LoopPolls' = i + 1)
        /\ (At(pc, "L126") \/ At(pc, "done")
              => sent' = sent /\ sleeps' = sleeps /\ inflight' = {})
      ]_pc

\* the third poll answered Break: two sleeps were taken and the loop is left
C9_Witness ==
    /\ At(pc, "L126")
    /\ state.snapshot.mode = "Break"
    /\ LoopPolls = 3
    /\ sleeps = 2

\* what a pass-through helper returns for the bridge's outcome
PassedThrough(t) ==
    IF answer[t].failed \/ "json" \notin DOMAIN answer[t]
    THEN ret[t].raised
    ELSE ~ret[t].raised /\ ret[t].value = answer[t].json

\* POST requests to `path` among the requests of the main thread
Posts(path) ==
    { k \in DOMAIN sent["main"] :
        sent["main"][k].method = "POST" /\ sent["main"][k].path = path }

\* C6: execute_command and batch_execute send exactly one POST each, with the
\* body {action, ...fields} resp. {commands, stopOnError} (commands in the
\* given order), return the decoded answer unmodified (so the counts printed
\* are the bridge's), and a failed call raises without a second request.
C6_PassThrough ==
    /\ (pc[1] = "L66" /\ pc[2] # "run"
          => /\ Cardinality(Posts(<<"command">>)) = 1
             /\ sent["main"][2].json =
                  [action |-> "setBreakpoint", file |-> "C:\\Code\\Program.cs",
                   line |-> 10])
    /\ (pc[1] \in {"L66", "L67", "L68", "L76", "L109"} /\ pc[2] = "wait"
          => Cardinality(inflight) = 1)
    /\ (pc[1] \in {"L66", "L67", "L68", "L76", "L109"} /\ pc[2] = "raised"
          => inflight = {} /\ PassedThrough("main"))
    /\ (pc[1] \in {"L67", "L68", "L76", "L88"} /\ pc[2] = "run"
          => PassedThrough("main"))
    /\ (pc[1] = "L76" /\ pc[2] # "run"
          => /\ Cardinality(Posts(<<"command">>)) = 3
             /\ Cardinality(Posts(<<"batch">>)) = 1
             /\ Len(sent["main"]) = 5
             /\ sent["main"][5].json =
                  [commands |-> BasicBatchCommands, stopOnError |-> TRUE])
    /\ (At(pc, "L88")
          => /\ result = answer["main"].json
             /\ out = [line |-> 83,
                       success |-> answer["main"].json.successCount,
                       failure |-> answer["main"].json.failureCount])
    /\ (pc[1] = "L109" /\ pc[2] # "run"
          => /\ Cardinality(Posts(<<"command">>)) = 4
             /\ sent["main"][Len(sent["main"])].json = [action |-> "start"])

\* the bridge answered the batch with successCount 3 and failureCount 0, and
\* these are the counts printed
C6_Witness ==
    /\ At(pc, "L88")
    /\ answer["main"].json.successCount = 3
    /\ answer["main"].json.failureCount = 0
    /\ out = [line |-> 83, success |-> 3, failure |-> 0]

-----------------------------------------------------------------------------
(* The WebSocket push channel *)

\* websocket.WebSocketApp(url, on_message=..., ...): no `header` argument is
\* given, so the connection request carries the library's own headers only
WebSocketApp(url) == [url |-> url, header |-> {}]

\* the connection request run_forever sends for the application `app`
Handshake(app) == [url |-> app.url, headers |-> app.header]

Snapshots ==
    { [mode |-> "Run", locals |-> <<>>],
      [mode |-> "Design", locals |-> <<>>, notes |-> "Debugging stopped"] }
    \cup { [mode |-> "Break", file |-> "Program.cs", line |-> 42] @@ e
           : e \in { [locals |-> << <<"n", 3>> >>],
                     [exception |-> <<>>, locals |-> <<>>],
                     [exception |-> Lower(Pat_NullReferenceException)],
                     [exception |-> Pat_IndexOutOfRangeException,
                      locals |-> << <<"n", 3>> >>] } }
    \cup { [mode |-> "Break", file |-> "Program.cs", line |-> 42,
            exception |-> <<"S","y","s","t","e","m",".">>
                          \o Pat_NullReferenceException] @@ l
           : l \in { NoArgs,
                     [locals |-> <<>>],
                     [locals |-> << <<"obj", "null">>, <<"n", 3>> >>] } }

Messages ==
    { [type |-> "connected", connectionId |-> "c1"],
      [type |-> "pong"],
      [type |-> "heartbeat"],
      [id |-> 5] }
    \cup { [type |-> "stateChange", snapshot |-> sn] : sn \in Snapshots }

\* data.get("type") == t
IsType(data, t) == "type" \in DOMAIN data /\ data.type = t

\* list(d.keys()) of a mapping given as its members in order
Keys(d) == [k \in 1..Len(d) |-> d[k][1]]

-----------------------------------------------------------------------------
(* websocket_agent.py *)

ws_execute_command_request(action, kwargs) ==
    HttpPost(<<"command">>, ("action" :> action) @@ kwargs)

ws_execute_command(o) == resp_json(o)

ws_batch_execute_request(commands) ==
    HttpPost(<<"batch">>, [commands |-> commands, stopOnError |-> TRUE])

ws_batch_execute(o) == resp_json(o)

\* the list literal of lines 100-104
WsBatchCommands ==
    << [action |-> "clearBreakpoints"],
       [action |-> "setBreakpoint", file |-> "C:\\Code\\Program.cs", line |-> 42],
       [action |-> "setBreakpoint", file |-> "C:\\Code\\Worker.cs", line |-> 25] >>

\* lines 87-93
ws_app == WebSocketApp(WS_URL)

\* what one call of on_message prints, and whether it raises
ws_on_message(data) ==
    IF IsType(data, "connected")
    THEN IF "connectionId" \in DOMAIN data
         THEN [raised |-> FALSE,
               out |-> << [line |-> 41, id |-> data.connectionId] >>]
         ELSE [raised |-> TRUE, out |-> <<>>]
    ELSE IF IsType(data, "stateChange")
    THEN IF "snapshot" \notin DOMAIN data \/ "mode" \notin DOMAIN data.snapshot
         THEN [raised |-> TRUE, out |-> <<>>]
         ELSE LET snapshot == data.snapshot
                  mode == snapshot.mode
                  head == << [line |-> 46, mode |-> mode] >>
              IN  IF mode = "Break"
                  THEN [raised |-> FALSE,
                        out |-> head \o
                          << [line |-> 49, file |-> Get(snapshot, "file", "unknown")],
                             IF "line" \in DOMAIN snapshot
                             THEN [line |-> 50, lineno |-> snapshot.line]
                             ELSE [line |-> 50, unknown |-> "?"],
                             [line |-> 51,
                              count |-> Len(Get(snapshot, "locals", <<>>))] >>
                          \o (IF Get(snapshot, "stack", <<>>) # <<>>
                              THEN << [line |-> 56,
                                       frames |-> Take(snapshot.stack, 3)] >>
                              ELSE <<>>)]
                  ELSE IF mode = "Run"
                  THEN [raised |-> FALSE, out |-> head \o << [line |-> 61] >>]
                  ELSE IF mode = "Design"
                  THEN [raised |-> FALSE,
                        out |-> head \o
                          << [line |-> 65, notes |-> Get(snapshot, "notes", "")] >>]
                  ELSE [raised |-> FALSE, out |-> head]
    ELSE IF IsType(data, "pong")
    THEN [raised |-> FALSE, out |-> << [line |-> 69] >>]
    ELSE [raised |-> FALSE, out |-> <<>>]

InitWs ==
    /\ InitCommon
    /\ current_state = None /\ error_history = <<>> /\ running = FALSE
    /\ script = "websocket"
    /\ pc = <<"L100", "run">>
    /\ wsPc = <<"none", "run">>

\* lines 100-104: result = batch_execute([...]), the request
WsBatchCall ==
    /\ At(pc, "L100")
    /\ HttpCall("main", ws_batch_execute_request(WsBatchCommands))
    /\ pc' = <<"L100", "wait">>
    /\ UNCHANGED <<script, discovery, result, out, answer, ret, basicVars,
                   wsVars, agentVars, fnVars>>

\* lines 100-108
WsBatchReturn ==
    /\ Waiting(pc, "L100")
    /\ \E o \in Outcomes(PendingPath("main")) :
          LET r == ws_batch_execute(o) IN
          /\ HttpReturn("main", o, r)
          /\ IF r.raised
             THEN pc' = CrashedAt("L100") /\ UNCHANGED <<result, out>>
             ELSE /\ result' = r.value
                  /\ out' = IF r.value.ok
                            THEN [line |-> 107, success |-> r.value.successCount]
                            ELSE [line |-> 108]
                  /\ pc' = <<"L112", "run">>
    /\ UNCHANGED <<script, discovery, sent, basicVars, wsVars, agentVars, fnVars>>

\* line 112: execute_command("start"), the request
WsStartCall ==
    /\ At(pc, "L112")
    /\ HttpCall("main", ws_execute_command_request("start", NoArgs))
    /\ pc' = <<"L112", "wait">>
    /\ UNCHANGED <<script, discovery, result, out, answer, ret, basicVars,
                   wsVars, agentVars, fnVars>>

\* lines 112-115
WsStartReturn ==
    /\ Waiting(pc, "L112")
    /\ \E o \in Outcomes(PendingPath("main")) :
          LET r == ws_execute_command(o) IN
          /\ HttpReturn("main", o, r)
          /\ pc' = IF r.raised THEN CrashedAt("L112") ELSE <<"L119", "run">>
    /\ UNCHANGED <<script, discovery, result, out, sent, basicVars, wsVars,
                   agentVars, fnVars>>

\* line 119: ws.run_forever() sends the connection request; the bridge accepts
\* it (on_open) or not (on_error, on_close, run_forever returns)
WsRunForever ==
    /\ At(pc, "L119") /\ At(wsPc, "none")
    /\ wsConn' = Handshake(ws_app)
    /\ \E accepted \in BOOLEAN :
          IF accepted
          THEN wsPc' = <<"recv", "run">> /\ wsOut' = << [line |-> 78] >> /\ pc' = pc
          ELSE /\ wsPc' = <<"closed", "run">>
               /\ wsOut' = << [line |-> 72], [line |-> 75] >>
               /\ pc' = <<"done", "run">>
    /\ UNCHANGED <<script, discovery, result, out, httpVars, basicVars,
                   msgCount, lastMsg, agentVars, fnVars>>

\* lines 35-69: one pushed message is handled; the library reports an
\* exception of the callback and goes on receiving
WsOnMessage ==
    /\ At(pc, "L119") /\ wsPc[1] = "recv"
    /\ msgCount < MaxMsgs
    /\ \E msg \in Messages :
          /\ lastMsg' = msg
          /\ wsOut' = ws_on_message(msg).out
          /\ wsPc' = <<"recv", IF ws_on_message(msg).raised THEN "raised" ELSE "run">>
    /\ msgCount' = msgCount + 1
    /\ UNCHANGED <<script, discovery, pc, result, out, httpVars, basicVars,
                   wsConn, agentVars, fnVars>>

\* lines 120-122 (KeyboardInterrupt, ws.close()) or the bridge closing the
\* connection (on_close): run_forever is over and the script ends
WsClose ==
    /\ At(pc, "L119") /\ wsPc[1] = "recv"
    /\ \E interrupted \in BOOLEAN :
          wsOut' = IF interrupted THEN << [line |-> 121] >> ELSE << [line |-> 75] >>
    /\ wsPc' = <<"closed", "run">>
    /\ pc' = <<"done", "run">>
    /\ UNCHANGED <<script, discovery, result, out, httpVars, basicVars,
                   wsConn, msgCount, lastMsg, agentVars, fnVars>>

NextWs ==
    \/ WsBatchCall
    \/ WsBatchReturn
    \/ WsStartCall
    \/ WsStartReturn
    \/ WsRunForever
    \/ WsOnMessage
    \/ WsClose

SpecWs == InitWs /\ [][NextWs]_vars

\* the API key header of the discovery file is among the headers of `hs`
CarriesKey(hs) == <<discovery.keyHeader, discovery.defaultApiKey>> \in hs

\* C3: every request sent to the bridge carries the API key in the header the
\* discovery file names: every HTTP GET and POST, and the WebSocket /ws
\* connection request.
C3_EveryRequestCarriesKey ==
    /\ \A t \in Threads : \A k \in DOMAIN sent[t] : CarriesKey(sent[t][k].headers)
    /\ (wsConn # None => CarriesKey(wsConn.headers))

-----------------------------------------------------------------------------
(* autonomous_debug_agent.py: the helpers of AutonomousDebugAgent *)

agent_execute_command_request(action, kwargs) ==
    HttpPost(<<"command">>, ("action" :> action) @@ kwargs)

agent_execute_command(o) == resp_json(o)

agent_batch_execute_request(commands) ==
    HttpPost(<<"batch">>, [commands |-> commands, stopOnError |-> FALSE])

agent_batch_execute(o) == resp_json(o)

agent_get_errors_request == HttpGet(<<"errors">>)

agent_get_errors(o) == resp_json(o)

agent_get_output_request(pane) == HttpGet(<<"output", pane>>)

\* resp.text
Text(t) == [text |-> t]

get_output_raise_for_status(o) ==
    IF o.failed \/ o.status # 200 THEN Raise ELSE Return(Text(o.text))

get_output(o) ==
    IF o.failed THEN Raise
    ELSE IF o.status = 200 THEN Return(Text(o.text))
    ELSE Return(None)

agent_get_logs_request == HttpGet(<<"logs">>)

agent_get_logs(o) == resp_json(o)

\* the list literal of lines 190-194
AgentBatchCommands ==
    << [action |-> "clearBreakpoints"],
       [action |-> "setBreakpoint", file |-> "C:\\Code\\Program.cs", line |-> 42],
       [action |-> "start"] >>

\* lines 206-212
agent_ws_app == WebSocketApp(WS_URL)

\* the prints of lines 70-72, and the list analyze_error returns
AnalyzeErrorOut(item) ==
    [line |-> 70, file |-> Get(item, "file", ""), lineno |-> Get(item, "line", 0),
     error |-> Get(item, "description", <<>>), returned |-> analyze_error(item)]

handle_exception_subscript(snapshot) ==
    IF "locals" \notin DOMAIN snapshot
    THEN [raised |-> TRUE, out |-> <<>>]
    ELSE [raised |-> FALSE,
          out |-> << [line |-> 126, type |-> Get(snapshot, "exception", <<>>)],
                     [line |-> 127, names |-> Take(Keys(snapshot.locals), 10)] >>
                  \o (IF Contains(Pat_NullReferenceException,
                                  Get(snapshot, "exception", <<>>))
                      THEN << [line |-> 135], [line |-> 136] >>
                      ELSE IF Contains(Pat_IndexOutOfRangeException,
                                       Get(snapshot, "exception", <<>>))
                      THEN << [line |-> 139], [line |-> 140] >>
                      ELSE <<>>)]

\* lines 120-140: what handle_exception prints, and whether it raises
handle_exception(snapshot) ==
    LET exception   == Get(snapshot, "exception", <<>>)
        locals_dict == Get(snapshot, "locals", <<>>)
    IN  [raised |-> FALSE,
         out |-> << [line |-> 126, type |-> exception],
                    [line |-> 127, names |-> Take(Keys(locals_dict), 10)] >>
                 \o (IF Contains(Pat_NullReferenceException, exception)
                     THEN << [line |-> 135], [line |-> 136] >>
                     ELSE IF Contains(Pat_IndexOutOfRangeException, exception)
                     THEN << [line |-> 139], [line |-> 140] >>
                     ELSE <<>>)]

on_message_current_state_reset(cur, data) ==
    IF "snapshot" \in DOMAIN data THEN data.snapshot ELSE NoArgs

\* line 101, reached for a stateChange message only
on_message_current_state(cur, data) ==
    IF IsType(data, "stateChange") /\ "snapshot" \in DOMAIN data
    THEN data.snapshot
    ELSE cur

\* on_message never touches error_history
on_message_error_history(hist, data) == hist

\* lines 91-118: what on_message prints before it returns or enters
\* analyze_session (next = "L147"), and whether it raises
on_message(data) ==
    IF IsType(data, "connected")
    THEN IF "connectionId" \in DOMAIN data
         THEN [raised |-> FALSE, next |-> "recv",
               out |-> << [line |-> 97, id |-> data.connectionId] >>]
         ELSE [raised |-> TRUE, next |-> "L97", out |-> <<>>]
    ELSE IF IsType(data, "stateChange")
    THEN IF "snapshot" \notin DOMAIN data
         THEN [raised |-> TRUE, next |-> "L100", out |-> <<>>]
         ELSE IF "mode" \notin DOMAIN data.snapshot
         THEN [raised |-> TRUE, next |-> "L102", out |-> <<>>]
         ELSE LET snapshot == data.snapshot
                  mode == snapshot.mode
                  head == << [line |-> 104, mode |-> mode] >>
              IN  IF mode = "Break"
                  THEN IF Get(snapshot, "exception", <<>>) # <<>>
                       THEN LET h == handle_exception(snapshot) IN
                            [raised |-> h.raised,
                             next |-> IF h.raised THEN "L111" ELSE "recv",
                             out |-> head
                                     \o << [line |-> 110,
                                            exception |-> snapshot.exception] >>
                                     \o h.out]
                       ELSE [raised |-> FALSE, next |-> "recv",
                             out |-> head \o
                               << [line |-> 113,
                                   file |-> Get(snapshot, "file", "None")] >>]
                  ELSE IF mode = "Design"
                  THEN [raised |-> FALSE, next |-> "L147",
                        out |-> head \o << [line |-> 117], [line |-> 144] >>]
                  ELSE [raised |-> FALSE, next |-> "recv", out |-> head]
    ELSE [raised |-> FALSE, next |-> "recv", out |-> <<>>]

\* lines 181-194: where run_debugging_cycle goes after GET /errors
AfterErrorsWhenBuildOk(res, errs) ==
    IF errs.array # <<>> \/ ~Get(res, "ok", FALSE) THEN "L222" ELSE "L190"

AfterErrors(res, errs) == IF errs.array # <<>> THEN "L222" ELSE "L190"

-----------------------------------------------------------------------------
(* autonomous_debug_agent.py: the main thread (start, run_debugging_cycle)  *)
(* and the WebSocket thread (run_forever, on_message, analyze_session)      *)

InitAuto ==
    /\ InitCommon
    /\ script = "autonomous"
    /\ current_state = NoArgs
    /\ error_history = <<>>
    /\ running = FALSE
    /\ pc = <<"L203", "run">>
    /\ wsPc = <<"none", "run">>

\* an uncaught exception of the main thread, or its return from start(), ends
\* the process and with it the daemon thread
ProcessAlive == pc[2] # "raised" /\ pc[1] # "done"

\* the WebSocket thread is in the receive loop of run_forever (a callback that
\* raised was reported through on_error and the loop went on)
Receiving == wsPc[1] = "recv" \/ wsPc[2] = "raised"

\* lines 196-217: the WebSocket thread is started, the main thread sleeps 1 s
AgentStart ==
    /\ At(pc, "L203")
    /\ running' = TRUE
    /\ wsPc' = <<"connect", "run">>
    /\ pc' = <<"L174", "run">>
    /\ UNCHANGED <<script, discovery, result, out, httpVars, basicVars, wsConn,
                   msgCount, lastMsg, wsOut, current_state, error_history,
                   errors, fnVars>>

\* ws.run_forever on the thread: the connection request is sent; the bridge
\* accepts it (on_open) or not (on_error, on_close, the thread ends)
AgentConnect ==
    /\ ProcessAlive /\ At(wsPc, "connect")
    /\ wsConn' = Handshake(agent_ws_app)
    /\ \E accepted \in BOOLEAN :
          IF accepted
          THEN wsPc' = <<"recv", "run">> /\ wsOut' = << [line |-> 211] >>
          ELSE /\ wsPc' = <<"closed", "run">>
               /\ wsOut' = << [line |-> 209], [line |-> 210] >>
    /\ UNCHANGED <<script, discovery, pc, result, out, httpVars, basicVars,
                   msgCount, lastMsg, agentVars, fnVars>>

\* line 174: result = self.execute_command("build"), the request
AgentBuildCall ==
    /\ At(pc, "L174")
    /\ HttpCall("main", agent_execute_command_request("build", NoArgs))
    /\ pc' = <<"L174", "wait">>
    /\ UNCHANGED <<script, discovery, result, out, answer, ret, basicVars,
                   wsVars, agentVars, fnVars>>

\* lines 174-177
AgentBuildReturn ==
    /\ Waiting(pc, "L174")
    /\ \E o \in Outcomes(PendingPath("main")) :
          LET r == agent_execute_command(o) IN
          /\ HttpReturn("main", o, r)
          /\ IF r.raised
             THEN pc' = CrashedAt("L174") /\ UNCHANGED <<result, out>>
             ELSE /\ result' = r.value
                  /\ out' = IF Get(r.value, "ok", FALSE)
                            THEN [line |-> 176] ELSE [line |-> 173]
                  /\ pc' = <<"L180", "run">>
    /\ UNCHANGED <<script, discovery, sent, basicVars, wsVars, agentVars, fnVars>>

\* line 180: errors = self.get_errors(), the request
AgentErrorsCall ==
    /\ At(pc, "L180")
    /\ HttpCall("main", agent_get_errors_request)
    /\ pc' = <<"L180", "wait">>
    /\ UNCHANGED <<script, discovery, result, out, answer, ret, basicVars,
                   wsVars, agentVars, fnVars>>

\* lines 180-189: the first three errors are analysed, or the debug session
\* is about to be started
AgentErrorsReturn ==
    /\ Waiting(pc, "L180")
    /\ \E o \in Outcomes(PendingPath("main")) :
          LET r == agent_get_errors(o) IN
          /\ HttpReturn("main", o, r)
          /\ IF r.raised
             THEN pc' = CrashedAt("L180") /\ UNCHANGED <<errors, out>>
             ELSE /\ errors' = r.value
                  /\ out' = IF r.value.array # <<>>
                            THEN [line |-> 182, found |-> Len(r.value.array),
                                  analysed |->
                                    [k \in 1..Len(Take(r.value.array, 3)) |->
                                       AnalyzeErrorOut(r.value.array[k])]]
                            ELSE [line |-> 189]
                  /\ pc' = <<AfterErrors(result, r.value), "run">>
    /\ UNCHANGED <<script, discovery, result, sent, basicVars, wsVars,
                   current_state, error_history, running, fnVars>>

\* lines 190-194: self.batch_execute([...]), the request
AgentBatchCall ==
    /\ At(pc, "L190")
    /\ HttpCall("main", agent_batch_execute_request(AgentBatchCommands))
    /\ pc' = <<"L190", "wait">>
    /\ UNCHANGED <<script, discovery, result, out, answer, ret, basicVars,
                   wsVars, agentVars, fnVars>>

\* lines 190-194: the returned value is dropped; line 222 follows
AgentBatchReturn ==
    /\ Waiting(pc, "L190")
    /\ \E o \in Outcomes(PendingPath("main")) :
          LET r == agent_batch_execute(o) IN
          /\ HttpReturn("main", o, r)
          /\ pc' = IF r.raised THEN CrashedAt("L190") ELSE <<"L222", "run">>
    /\ UNCHANGED <<script, discovery, result, out, sent, basicVars, wsVars,
                   agentVars, fnVars>>

\* lines 223-228: KeyboardInterrupt in the monitoring loop, self.ws.close()
AgentInterrupt ==
    /\ At(pc, "L222")
    /\ pc' = <<"done", "run">>
    /\ out' = [line |-> 227]
    /\ wsPc' = IF wsPc[1] = "none" THEN wsPc ELSE <<"closed", wsPc[2]>>
    /\ UNCHANGED <<script, discovery, result, httpVars, basicVars, wsConn,
                   msgCount, lastMsg, wsOut, agentVars, fnVars>>

\* lines 91-118: one pushed message is handled up to the return of on_message
\* or up to the first request of analyze_session
AgentOnMessage ==
    /\ ProcessAlive /\ Receiving
    /\ msgCount < MaxMsgs
    /\ \E msg \in Messages :
          LET h == on_message(msg) IN
          /\ lastMsg' = msg
          /\ current_state' = on_message_current_state(current_state, msg)
          /\ error_history' = on_message_error_history(error_history, msg)
          /\ wsOut' = h.out
          /\ wsPc' = <<h.next, IF h.raised THEN "raised" ELSE "run">>
    /\ msgCount' = msgCount + 1
    /\ UNCHANGED <<script, discovery, pc, result, out, httpVars, basicVars,
                   wsConn, running, errors, fnVars>>

\* line 147: errors = self.get_errors(), the request
AgentSessionErrorsCall ==
    /\ ProcessAlive /\ At(wsPc, "L147")
    /\ HttpCall("ws", agent_get_errors_request)
    /\ wsPc' = <<"L147", "wait">>
    /\ UNCHANGED <<script, discovery, pc, result, out, answer, ret, basicVars,
                   wsConn, msgCount, lastMsg, wsOut, agentVars, fnVars>>

\* lines 147-153: up to five errors are analysed, two suggestions each
AgentSessionErrorsReturn ==
    /\ ProcessAlive /\ Waiting(wsPc, "L147")
    /\ \E o \in Outcomes(PendingPath("ws")) :
          LET r == agent_get_errors(o) IN
          /\ HttpReturn("ws", o, r)
          /\ IF r.raised
             THEN wsPc' = CrashedAt("L147") /\ wsOut' = Append(wsOut, [line |-> 209])
             ELSE /\ wsPc' = <<"L156", "run">>
                  /\ wsOut' =
                       IF r.value.array # <<>>
                       THEN wsOut \o << [line |-> 149, found |-> Len(r.value.array)] >>
                            \o [k \in 1..Len(Take(r.value.array, 5)) |->
                                  [line |-> 153,
                                   suggestions |->
                                     Take(analyze_error(r.value.array[k]), 2)]]
                       ELSE wsOut
    /\ UNCHANGED <<script, discovery, pc, result, out, sent, basicVars, wsConn,
                   msgCount, lastMsg, agentVars, fnVars>>

\* line 156: build_output = self.get_output("Build"), the request
AgentSessionOutputCall ==
    /\ ProcessAlive /\ At(wsPc, "L156")
    /\ HttpCall("ws", agent_get_output_request("Build"))
    /\ wsPc' = <<"L156", "wait">>
    /\ UNCHANGED <<script, discovery, pc, result, out, answer, ret, basicVars,
                   wsConn, msgCount, lastMsg, wsOut, agentVars, fnVars>>

\* lines 156-158
AgentSessionOutputReturn ==
    /\ ProcessAlive /\ Waiting(wsPc, "L156")
    /\ \E o \in Outcomes(PendingPath("ws")) :
          LET r == get_output(o) IN
          /\ HttpReturn("ws", o, r)
          /\ IF r.raised
             THEN wsPc' = CrashedAt("L156") /\ wsOut' = Append(wsOut, [line |-> 209])
             ELSE /\ wsPc' = <<"L161", "run">>
                  /\ wsOut' =
                       IF /\ r.value # None
                          /\ r.value.text # <<>>
                          /\ Contains(Pat_error, Lower(r.value.text))
                       THEN Append(wsOut, [line |-> 158])
                       ELSE wsOut
    /\ UNCHANGED <<script, discovery, pc, result, out, sent, basicVars, wsConn,
                   msgCount, lastMsg, agentVars, fnVars>>

\* line 161: logs = self.get_logs(), the request
AgentSessionLogsCall ==
    /\ ProcessAlive /\ At(wsPc, "L161")
    /\ HttpCall("ws", agent_get_logs_request)
    /\ wsPc' = <<"L161", "wait">>
    /\ UNCHANGED <<script, discovery, pc, result, out, answer, ret, basicVars,
                   wsConn, msgCount, lastMsg, wsOut, agentVars, fnVars>>

\* lines 161-166: on_message returns to the receive loop
AgentSessionLogsReturn ==
    /\ ProcessAlive /\ Waiting(wsPc, "L161")
    /\ \E o \in Outcomes(PendingPath("ws")) :
          LET r == agent_get_logs(o) IN
          /\ HttpReturn("ws", o, r)
          /\ IF r.raised
             THEN wsPc' = CrashedAt("L161") /\ wsOut' = Append(wsOut, [line |-> 209])
             ELSE /\ wsPc' = <<"recv", "run">>
                  /\ wsOut' =
                       (IF r.value.array # <<>>
                        THEN Append(wsOut,
                               [line |-> 164,
                                total |-> Sum([k \in 1..Len(r.value.array) |->
                                   Get(r.value.array[k], "durationMs", 0)]),
                                count |-> Len(r.value.array)])
                        ELSE wsOut)
                       \o << [line |-> 166] >>
    /\ UNCHANGED <<script, discovery, pc, result, out, sent, basicVars, wsConn,
                   msgCount, lastMsg, agentVars, fnVars>>

\* the bridge closes the connection: on_close, run_forever returns
AgentDisconnected ==
    /\ ProcessAlive /\ Receiving
    /\ wsPc' = <<"closed", "run">>
    /\ wsOut' = << [line |-> 210] >>
    /\ UNCHANGED <<script, discovery, pc, result, out, httpVars, basicVars,
                   wsConn, msgCount, lastMsg, agentVars, fnVars>>

NextAuto ==
    \/ AgentStart
    \/ AgentConnect
    \/ AgentBuildCall
    \/ AgentBuildReturn
    \/ AgentErrorsCall
    \/ AgentErrorsReturn
    \/ AgentBatchCall
    \/ AgentBatchReturn
    \/ AgentInterrupt
    \/ AgentOnMessage
    \/ AgentSessionErrorsCall
    \/ AgentSessionErrorsReturn
    \/ AgentSessionOutputCall
    \/ AgentSessionOutputReturn
    \/ AgentSessionLogsCall
    \/ AgentSessionLogsReturn
    \/ AgentDisconnected

SpecAuto == InitAuto /\ [][NextAuto]_vars

-----------------------------------------------------------------------------
(* Properties of autonomous_debug_agent.py *)

Range(f) == { f[k] : k \in DOMAIN f }

\* C2 as stated: at most one HTTP request is in flight in every reachable
\* state, the WebSocket thread's analyze_session included.
C2_OneRequestInFlight == Cardinality(inflight) <= 1

\* C2 as amended: every thread has at most one HTTP request in flight and is
\* blocked in that call meanwhile; the two threads' requests may overlap, so
\* at most two requests are in flight.
C2_OneRequestPerThread ==
    /\ \A t \in Threads : Cardinality(Pending(t)) <= 1
    /\ (Pending("main") # {} <=> pc[2] = "wait")
    /\ (Pending("ws") # {} /\ ProcessAlive /\ wsPc[1] # "closed"
          => wsPc[2] = "wait")
    /\ Cardinality(inflight) <= Cardinality(Threads)

\* POST /command of run_debugging_cycle and GET /errors of analyze_session
\* are in flight together
C2_Witness ==
    /\ Cardinality(inflight) = 2
    /\ Waiting(pc, "L174")
    /\ Waiting(wsPc, "L147")

\* a stateChange message with mode Break whose exception string contains
\* "NullReferenceException"
NullReferenceBreak(data) ==
    /\ IsType(data, "stateChange")
    /\ data.snapshot.mode = "Break"
    /\ "exception" \in DOMAIN data.snapshot
    /\ Contains(Pat_NullReferenceException, data.snapshot.exception)

\* C4: handling a stateChange message with mode Break and an exception
\* containing "NullReferenceException" prints the null-check suggestion and
\* returns without raising, whatever the locals mapping is (empty and absent
\* included), and issues no HTTP request.
C4_NullReferenceSuggestion ==
    [][ msgCount' = msgCount + 1 /\ NullReferenceBreak(lastMsg')
          => /\ wsPc' = <<"recv", "run">>
             /\ [line |-> 135] \in Range(wsOut')
             /\ [line |-> 136] \in Range(wsOut')
             /\ sent' = sent
             /\ inflight' = inflight ]_msgCount

\* the NullReferenceException snapshot without a locals field was handled
C4_Witness ==
    /\ script = "autonomous"
    /\ NullReferenceBreak(lastMsg)
    /\ "locals" \notin DOMAIN lastMsg.snapshot
    /\ wsPc = <<"recv", "run">>
    /\ [line |-> 135] \in Range(wsOut)

\* C7: current_state is the snapshot of the most recent stateChange message
\* (the empty mapping before the first), every other message and every other
\* step leaves it unchanged, and error_history stays empty.
C7_OnlyTheMirror ==
    /\ [](error_history = <<>>)
    /\ [](msgCount = 0 => current_state = NoArgs)
    /\ [][ IF msgCount' = msgCount + 1 /\ IsType(lastMsg', "stateChange")
           THEN current_state' = lastMsg'.snapshot
           ELSE current_state' = current_state
         ]_<<msgCount, current_state, error_history, pc, wsPc>>

\* a Break snapshot, then a pong: the mirror still holds the snapshot
C7_Witness ==
    /\ script = "autonomous"
    /\ msgCount = 2
    /\ IsType(lastMsg, "pong")
    /\ "mode" \in DOMAIN current_state
    /\ current_state.mode = "Break"

\* C8: get_output returns the text for status 200 and None for any other
\* status, without raising; after a None build output analyze_session prints
\* no build-output message and goes on to GET /logs.
C8_GetOutput ==
    /\ (wsPc = <<"L156", "raised">> => answer["ws"].failed)
    /\ (At(wsPc, "L161")
          => /\ ~answer["ws"].failed
             /\ ~ret["ws"].raised
             /\ ret["ws"].value = IF answer["ws"].status = 200
                                  THEN Text(answer["ws"].text)
                                  ELSE None
             /\ (ret["ws"].value = None => [line |-> 158] \notin Range(wsOut)))
    /\ (Waiting(wsPc, "L161")
          => /\ Len(sent["ws"]) >= 2
             /\ sent["ws"][Len(sent["ws"])] = HttpGet(<<"logs">>)
             /\ sent["ws"][Len(sent["ws"]) - 1] = HttpGet(<<"output", "Build">>))

\* GET /output/Build was answered 404, get_output returned None, and GET
\* /logs is in flight
C8_Witness ==
    /\ Waiting(wsPc, "L161")
    /\ ret["ws"].value = None
    /\ [line |-> 158] \notin Range(wsOut)

\* C10: run_debugging_cycle sends POST /command {build}, then GET /errors,
\* then POST /batch [clearBreakpoints, setBreakpoint, start] with stopOnError
\* false if and only if the /errors answer is empty, whatever the build
\* answered.
C10_CycleOrder ==
    LET m == sent["main"] IN
    /\ Len(m) <= 3
    /\ (Len(m) >= 1
          => m[1] = [method |-> "POST", base |-> BASE_URL, path |-> <<"command">>,
                     headers |-> HEADERS, json |-> [action |-> "build"]])
    /\ (Len(m) >= 2
          => m[2] = [method |-> "GET", base |-> BASE_URL, path |-> <<"errors">>,
                     headers |-> HEADERS])
    /\ (Len(m) = 3
          => /\ m[3] = [method |-> "POST", base |-> BASE_URL, path |-> <<"batch">>,
                        headers |-> HEADERS,
                        json |-> [commands |->
                                    << [action |-> "clearBreakpoints"],
                                       [action |-> "setBreakpoint",
                                        file |-> "C:\\Code\\Program.cs",
                                        line |-> 42],
                                       [action |-> "start"] >>,
                                  stopOnError |-> FALSE]]
             /\ errors.array = <<>>)
    /\ (pc[1] \in {"L190", "L222", "done"} /\ pc # <<"L190", "run">>
          => (Len(m) = 3 <=> errors.array = <<>>))

\* the build answered ok = false, no errors were reported, and the batch that
\* starts the debug session was sent
C10_Witness ==
    /\ At(pc, "L222")
    /\ Len(sent["main"]) = 3
    /\ ~result.ok
    /\ errors.array = <<>>

-----------------------------------------------------------------------------
(* analyze_error applied to one error item *)

InitAnalyze ==
    /\ InitCommon
    /\ current_state = None /\ error_history = <<>> /\ running = FALSE
    /\ script = "analyze_error"
    /\ pc = <<"call", "run">>
    /\ wsPc = <<"none", "run">>

\* analyze_error is called with some error item
AnalyzeCall ==
    /\ At(pc, "call")
    /\ \E item \in ErrorItemInputs : error_item' = item
    /\ suggestions' = None
    /\ pc' = <<"body", "run">>
    /\ UNCHANGED <<script, discovery, result, out, httpVars, basicVars, wsVars,
                   agentVars>>

\* lines 64-89: the list of suggestions is returned
AnalyzeReturn ==
    /\ At(pc, "body")
    /\ suggestions' = analyze_error(error_item)
    /\ pc' = <<"returned", "run">>
    /\ UNCHANGED <<script, discovery, result, out, httpVars, basicVars, wsVars,
                   agentVars, error_item>>

NextAnalyze == AnalyzeCall \/ AnalyzeReturn

SpecAnalyze == InitAnalyze /\ [][NextAnalyze]_vars

\* the first suggestion of each category
CategoryHeads ==
    { "Missing import or undefined variable",
      "Null reference exception",
      "Type conversion issue" }

\* the category the claim assigns to a description, "" for none
ClaimedCategory(description) ==
    LET d == Lower(description) IN
    IF Contains(Pat_not_defined, d) \/ Contains(Pat_does_not_exist, d)
    THEN "Missing import or undefined variable"
    ELSE IF Contains(Pat_null_reference, d)
    THEN "Null reference exception"
    ELSE IF Contains(Pat_type_mismatch, d) \/ Contains(Pat_cannot_convert, d)
    THEN "Type conversion issue"
    ELSE ""

\* C5: analyze_error classifies by case-insensitive substring match with the
\* precedence "not defined"/"does not exist", then "null reference", then
\* "type mismatch"/"cannot convert"; the returned list starts with that
\* category's suggestion, holds that category's two suggestions only, and is
\* empty when nothing matches.
C5_Classification ==
    At(pc, "returned") =>
      LET cat == ClaimedCategory(Get(error_item, "description", <<>>))
          heads == { suggestions[k].text : k \in DOMAIN suggestions }
                   \cap CategoryHeads
      IN  IF cat = ""
          THEN suggestions = <<>>
          ELSE /\ Len(suggestions) = 2
               /\ suggestions[1].text = cat
               /\ heads = {cat}

\* "null reference" and "Not Defined" both occur: only the first category's
\* suggestions are returned
C5_Witness ==
    /\ At(pc, "returned")
    /\ "description" \in DOMAIN error_item
    /\ error_item.description =
         Pat_null_reference \o <<"N","o","t"," ","D","e","f","i","n","e","d">>
    /\ Len(suggestions) = 2
    /\ suggestions[1].text = "Missing import or undefined variable"

=============================================================================
